---- MODULE Spec2Model ----
(***************************************************************************)
(* Multi-provider checkout orchestration of the merch store:               *)
(*   - CheckoutServiceLive.getQuote / createCheckout                        *)
(*       (api/src/services/fulfillment/gelato/service.ts)                    *)
(*   - OrderStoreLive (api/src/store/orders.ts)                             *)
(*   - cleanupAbandonedDrafts, the abandonment sweeper (unnamed/part_003)   *)
(*   - createMarketplaceRuntime (api/src/services/products.ts)              *)
(* Amounts are integers (major currency units); time is counted in hours.   *)
(***************************************************************************)
EXTENDS Integers, Sequences, FiniteSets, TLC

VARIABLES
    products,           \* the products table of the ProductStore, by product id
    configured,         \* names of the fulfillment providers the runtime holds
    paymentConfigured,  \* whether the runtime holds the stripe payment provider
    orders,             \* the orders table; an order's id is its index
    drafts,             \* the draft orders that exist at the fulfillment providers
    sessions,           \* the checkout sessions that exist at the payment provider
    now,                \* the clock, in hours
    ck,                 \* the createCheckout request in flight
    sw,                 \* the cleanupAbandonedDrafts run in flight
    qt,                 \* the getQuote request in flight
    syncState,          \* the status of the 'products' row of sync_state
    sy,                 \* the ProductService.sync run in flight
    wh                  \* the last webhook signature check and its result

vars == <<wh, syncState, sy, products, configured, paymentConfigured, orders, drafts, sessions, now, ck, sw, qt>>

----------------------------------------------------------------------------
(* Bounds of the model *)

MaxOrders == 2      \* orders created in one behaviour of Spec
MaxCheckouts == 1   \* orders created in one behaviour of CheckoutSpec
MaxItems == 2       \* lines of a cart
MaxTime == 3        \* hours the clock runs
MaxRates == 2       \* rates in one quoteOrder answer

----------------------------------------------------------------------------
(* Small helpers *)

Range(s) == {s[i] : i \in 1..Len(s)}

RECURSIVE SumSeq(_)
SumSeq(s) == IF Len(s) = 0 THEN 0 ELSE s[1] + SumSeq(Tail(s))

SeqsUpTo(S, n) == UNION {[1..k -> S] : k \in 0..n}

----------------------------------------------------------------------------
(* The provider registry and the catalog *)

Registry == {"printful", "gelato"}
Manual == "manual"

\* runtime.getProvider(name) returns a provider or null
HasProvider(name) == name \in configured

\* The products the ProductStore holds at the start. fulfillmentProvider ""
\* stands for an unset provider; variants are kept in their stored order.
Catalog ==
    [tee     |-> [id |-> "tee", price |-> 20, fulfillmentProvider |-> "printful",
                  variants |-> <<[id |-> "tee-s", price |-> 25]>>],
     mug     |-> [id |-> "mug", price |-> 10, fulfillmentProvider |-> "gelato",
                  variants |-> <<>>],
     sticker |-> [id |-> "sticker", price |-> 3, fulfillmentProvider |-> "",
                  variants |-> <<>>]]

ProductIds == DOMAIN products

\* productStore.find(id): the product, or null
ProductFound(productId) == productId \in ProductIds

\* The cart lines a caller sends: {productId, variantId?, quantity}; variantId ""
\* stands for an absent variantId.
CartItems ==
    {[productId |-> "tee", variantId |-> "", quantity |-> 1],
     [productId |-> "tee", variantId |-> "tee-s", quantity |-> 2],
     [productId |-> "tee", variantId |-> "tee-xl", quantity |-> 1],
     [productId |-> "mug", variantId |-> "", quantity |-> 1],
     [productId |-> "sticker", variantId |-> "", quantity |-> 2],
     [productId |-> "ghost", variantId |-> "", quantity |-> 1]}

Carts == SeqsUpTo(CartItems, MaxItems)

StorefrontCarts ==
    {<<[productId |-> "tee", variantId |-> "", quantity |-> 1]>>,
     <<[productId |-> "mug", variantId |-> "", quantity |-> 1],
       [productId |-> "tee", variantId |-> "", quantity |-> 1]>>,
     <<[productId |-> "sticker", variantId |-> "", quantity |-> 2]>>}

----------------------------------------------------------------------------
(* Item resolution, shared by getQuote and createCheckout *)

\* product.variants.find(v => v.id === variantId): the index, 0 when none
RECURSIVE FindVariant(_, _, _)
FindVariant(variants, variantId, i) ==
    IF i > Len(variants) THEN 0
    ELSE IF variants[i].id = variantId THEN i
    ELSE FindVariant(variants, variantId, i + 1)

\* item.variantId ? variants.find(...) : variants[0]  -- index, 0 for undefined
SelectedVariant(product, item) ==
    IF item.variantId # ""
    THEN FindVariant(product.variants, item.variantId, 1)
    ELSE IF Len(product.variants) > 0 THEN 1 ELSE 0

\* selectedVariant?.price ?? product.price
UnitPrice(product, item) ==
    LET v == SelectedVariant(product, item)
    IN IF v # 0 THEN product.variants[v].price ELSE product.price

\* product.fulfillmentProvider || 'manual'
BucketOf(product) ==
    IF product.fulfillmentProvider = "" THEN Manual ELSE product.fulfillmentProvider

\* The ProviderItemGroup pushed for one cart line
ResolveItem(item) ==
    LET product == products[item.productId]
    IN [productId |-> product.id,
        quantity |-> item.quantity,
        price |-> UnitPrice(product, item),
        fulfillmentProvider |-> product.fulfillmentProvider,
        provider |-> BucketOf(product)]

\* index of the first cart line whose product is not found, 0 when all resolve
RECURSIVE FirstMissing(_, _)
FirstMissing(items, i) ==
    IF i > Len(items) THEN 0
    ELSE IF ~ProductFound(items[i].productId) THEN i
    ELSE FirstMissing(items, i + 1)

\* itemsByProvider: a Map keeps its keys in insertion order, so the buckets are
\* a sequence of [provider, items] in order of first appearance in the cart.
RECURSIVE GroupByProvider(_, _)
GroupByProvider(items, acc) ==
    IF Len(items) = 0 THEN acc
    ELSE LET r == ResolveItem(items[1])
             at == {k \in 1..Len(acc) : acc[k].provider = r.provider}
         IN IF at = {}
            THEN GroupByProvider(Tail(items),
                     Append(acc, [provider |-> r.provider, items |-> <<r>>]))
            ELSE LET k == CHOOSE k \in at : TRUE
                 IN GroupByProvider(Tail(items),
                        [acc EXCEPT ![k].items = Append(@, r)])

ItemsByProvider(items) == GroupByProvider(items, <<>>)

\* totalSubtotal: the running sum of unitPrice * quantity
RECURSIVE Subtotal(_)
Subtotal(items) ==
    IF Len(items) = 0 THEN 0
    ELSE LET r == ResolveItem(items[1])
         IN r.price * r.quantity + Subtotal(Tail(items))

\* Array.from(itemsByProvider.values()).flat()
RECURSIVE Flat(_)
Flat(buckets) ==
    IF Len(buckets) = 0 THEN <<>> ELSE buckets[1].items \o Flat(Tail(buckets))

----------------------------------------------------------------------------
(* The Order Store *)

\* An order's draftOrderIds column: null, or a provider -> draft id object whose
\* keys keep their insertion order.
NullIds == [isNull |-> TRUE, entries |-> <<>>]
Ids(entries) == [isNull |-> FALSE, entries |-> entries]

OrderIds == 1..Len(orders)

\* the shippingAddress column: null, or a ShippingAddress
NoAddress == [isNull |-> TRUE]
StoredAddress(address) == [isNull |-> FALSE, address |-> address]

\* OrderStore.create: the row inserted with status 'pending'. The
\* fulfillmentReferenceId `order_${Date.now()}_${userId}` is a token of its own,
\* never an order id: a negative number here.
NewOrder(id, items, totalAmount) ==
    [id |-> id,
     status |-> "pending",
     totalAmount |-> totalAmount,
     items |-> items,
     checkoutSessionId |-> 0,
     checkoutProvider |-> "",
     draftOrderIds |-> NullIds,
     fulfillmentOrderId |-> 0,
     trackingInfo |-> <<>>,
     shippingAddress |-> NoAddress,
     fulfillmentReferenceId |-> 0 - (now + 1),
     createdAt |-> now]

\* OrderStore.updateCheckout / updateDraftOrderIds / updateStatus: the table
\* after the update
UpdateCheckoutStoringAddress(id, sessionId, provider) ==
    [orders EXCEPT ![id].checkoutSessionId = sessionId,
                   ![id].checkoutProvider = provider,
                   ![id].shippingAddress = StoredAddress(ck.address)]

UpdateCheckout(id, sessionId, provider) ==
    [orders EXCEPT ![id].checkoutSessionId = sessionId,
                   ![id].checkoutProvider = provider]

UpdateDraftOrderIdsDropped(id, entries) == orders

UpdateDraftOrderIds(id, entries) ==
    [orders EXCEPT ![id].draftOrderIds = Ids(entries)]

UpdateStatusRemovingCancelled(id, status) ==
    IF status = "cancelled"
    THEN SubSeq(orders, 1, id - 1) \o SubSeq(orders, id + 1, Len(orders))
    ELSE [orders EXCEPT ![id].status = status]

UpdateStatus(id, status) ==
    [orders EXCEPT ![id].status = status]

GetOrderItemsFromCatalog(order) ==
    [k \in 1..Len(order.items) |->
        [order.items[k] EXCEPT
            !.unitPrice = IF order.items[k].productId \in DOMAIN products
                          THEN products[order.items[k].productId].price ELSE 0,
            !.fulfillmentProvider =
                          IF order.items[k].productId \in DOMAIN products
                          THEN products[order.items[k].productId].fulfillmentProvider
                          ELSE ""]]

\* getOrderItems: the order_items rows of the order, as they were inserted
GetOrderItems(order) == order.items

\* OrderStore.find: the row with its items, or null (an order with id 0)
FindOrder(id) ==
    IF id \in OrderIds
    THEN [orders[id] EXCEPT !.items = GetOrderItems(orders[id])]
    ELSE [id |-> 0]

\* OrderStore.updateFulfillment: the fulfillment order id, and status
\* 'processing' whatever the status was
UpdateFulfillment(id, fulfillmentOrderId) ==
    [orders EXCEPT ![id].fulfillmentOrderId = fulfillmentOrderId,
                   ![id].status = "processing"]

\* OrderStore.updateTracking: the tracking list, and status 'shipped' whatever
\* the status was
UpdateTracking(id, trackingInfo) ==
    [orders EXCEPT ![id].trackingInfo = trackingInfo,
                   ![id].status = "shipped"]

AbandonedIdsOfAnyStatus(olderThanHours) ==
    {id \in OrderIds : orders[id].createdAt < now - olderThanHours}

\* OrderStore.findAbandonedDrafts: the ids of the rows the SQL filter and the
\* in-process age filter keep
AbandonedIds(olderThanHours) ==
    LET cutoffTime == now - olderThanHours
    IN {id \in OrderIds : /\ orders[id].status = "draft_created"
                          /\ orders[id].createdAt < cutoffTime}

----------------------------------------------------------------------------
(* createCheckout *)

\* The selectedRates a caller sends: a provider -> rateId record over any subset
\* of the bucket names, or one whose rate ids are all the empty string.
ProviderNames == Registry \cup {Manual}

AllRates == [p \in ProviderNames |-> "r1"]

SelectedRatesInputs ==
    UNION {[S -> {"r1"}] : S \in SUBSET ProviderNames}
        \cup {[p \in ProviderNames |-> ""]}

\* shippingCost: z.number(), whatever the caller sends
ShippingCostInputs == {0 - 2, 0, 5}

\* the shippingCost of the quote the storefront passes on
StorefrontShippingCosts == {5}

\* selectedRates[providerName]; "" stands for undefined
RateOf(selectedRates, providerName) ==
    IF providerName \in DOMAIN selectedRates THEN selectedRates[providerName] ELSE ""

NoRateSelectedUnlessManual(selectedRates, providerName) ==
    providerName # Manual /\ RateOf(selectedRates, providerName) = ""

\* if (!selectedRateId): undefined and '' are both falsy
NoRateSelected(selectedRates, providerName) ==
    RateOf(selectedRates, providerName) = ""

ExternalIdIsReference(order) == order.fulfillmentReferenceId

\* the externalId createCheckout hands to provider.client.createOrder
ExternalIdOf(order) == order.id

\* Math.round(x * 100) of an integral amount
ToMinor(x) == x * 100

TotalAmountFromSubtotal(subtotal, shippingCost) == subtotal

\* const totalAmount = totalSubtotal + shippingCost
TotalAmount(subtotal, shippingCost) == subtotal + shippingCost

\* JSON.stringify(draftOrderIds): the object's own keys in insertion order, each
\* with its value
StringifyIds(entries) ==
    [k \in 1..Len(entries) |-> <<entries[k].provider, entries[k].id>>]

LineItemsWithoutShipping(buckets, shippingCost) ==
    LET flat == Flat(buckets)
    IN [i \in 1..Len(flat) |->
          [name |-> flat[i].productId,
           unitAmount |-> ToMinor(flat[i].price),
           quantity |-> flat[i].quantity]]

\* the PaymentLineItem list: one per catalog line, plus Shipping when
\* shippingCost > 0
LineItems(buckets, shippingCost) ==
    LET flat == Flat(buckets)
        lines == [i \in 1..Len(flat) |->
                    [name |-> flat[i].productId,
                     unitAmount |-> ToMinor(flat[i].price),
                     quantity |-> flat[i].quantity]]
    IN IF shippingCost > 0
       THEN Append(lines, [name |-> "Shipping",
                           unitAmount |-> ToMinor(shippingCost),
                           quantity |-> 1])
       ELSE lines

\* the orderItems handed to orderStore.create
OrderItems(buckets) ==
    LET flat == Flat(buckets)
    IN [i \in 1..Len(flat) |->
          [productId |-> flat[i].productId,
           quantity |-> flat[i].quantity,
           unitPrice |-> flat[i].price,
           fulfillmentProvider |-> flat[i].fulfillmentProvider]]

NoError == [kind |-> "none", provider |-> ""]
Err(kind, provider) == [kind |-> kind, provider |-> provider]

\* the ShippingAddress values a request carries
AddressInputs ==
    {[firstName |-> "Ada", lastName |-> "Ng", city |-> "Oslo"],
     [firstName |-> "Bo", lastName |-> "Li", city |-> "Lima"]}

StorefrontAddresses == {[firstName |-> "Ada", lastName |-> "Ng", city |-> "Oslo"]}

\* buildRecipient: the address as the providers take it
BuildRecipient(address) ==
    [name |-> <<address.firstName, address.lastName>>, city |-> address.city]

CkIdle ==
    [pc |-> "idle", items |-> <<>>,
     address |-> [firstName |-> "", lastName |-> "", city |-> ""],
     selectedRates |-> [p \in {} |-> ""],
     shippingCost |-> 0, buckets |-> <<>>,
     idx |-> 0, orderId |-> 0, totalAmount |-> 0, draftOrderIds |-> <<>>,
     sessionId |-> 0, error |-> NoError, calls |-> <<>>]

CkInFlight == ck.pc \in {"drafts", "payment", "updateCheckout",
                         "updateDraftOrderIds", "updateStatus"}

CkFailCarriesOn(kind, provider) == [ck EXCEPT !.pc = "payment", !.error = Err(kind, provider)]

\* return yield* Effect.fail(...) or a failed yield*: the request ends with the
\* error
CkFail(kind, provider) == [ck EXCEPT !.pc = "failed", !.error = Err(kind, provider)]

AfterBucketStraightToPayment(c, idx) == [c EXCEPT !.pc = "payment", !.idx = idx + 1]

\* where the request goes once bucket idx has been dealt with
AfterBucket(c, idx) ==
    IF idx >= Len(c.buckets) THEN [c EXCEPT !.pc = "payment", !.idx = idx + 1]
    ELSE [c EXCEPT !.idx = idx + 1]

\* lines 835-897: resolve the cart, then orderStore.create
CheckoutStartWith(carts, addresses, rates, costs, maxOrders) ==
    /\ ck.pc = "idle" /\ sw.pc = "idle"
    /\ Len(orders) < maxOrders
    /\ \E items \in carts, address \in addresses, selectedRates \in rates,
          shippingCost \in costs, created \in BOOLEAN :
         LET missing == FirstMissing(items, 1)
             buckets == ItemsByProvider(items)
             totalAmount == TotalAmount(Subtotal(items), shippingCost)
             id == Len(orders) + 1
             req == [CkIdle EXCEPT !.items = items,
                                   !.address = address,
                                   !.selectedRates = selectedRates,
                                   !.shippingCost = shippingCost]
         IN IF missing # 0
            THEN /\ ck' = [req EXCEPT !.pc = "failed",
                                      !.error = Err("ProductNotFound", "")]
                 /\ UNCHANGED orders
            ELSE IF ~created
            THEN /\ ck' = [req EXCEPT !.pc = "failed",
                                      !.error = Err("CreateOrderRowFailed", ""),
                                      !.calls = <<[op |-> "orderStore.create",
                                                   provider |-> "", externalId |-> 0]>>]
                 /\ UNCHANGED orders
            ELSE /\ orders' = Append(orders, NewOrder(id, OrderItems(buckets), totalAmount))
                 /\ ck' = AfterBucket(
                            [req EXCEPT !.pc = "drafts", !.buckets = buckets,
                                        !.orderId = id, !.totalAmount = totalAmount,
                                        !.calls = <<[op |-> "orderStore.create",
                                                     provider |-> "", externalId |-> 0]>>],
                            0)
    /\ UNCHANGED <<wh, syncState, sy, products, configured, paymentConfigured, drafts, sessions, now, sw, qt>>

\* a request with any of the inputs
CheckoutStart ==
    CheckoutStartWith(Carts, AddressInputs, SelectedRatesInputs, ShippingCostInputs, MaxCheckouts)

\* a request of the storefront: a cart of one or two catalog products, the rates
\* of the quote shown for it
StorefrontCheckoutStart ==
    CheckoutStartWith(StorefrontCarts, StorefrontAddresses, {AllRates}, StorefrontShippingCosts, MaxOrders)

\* lines 901-941: one pass of the loop over itemsByProvider.entries()
CheckoutBucket ==
    /\ ck.pc = "drafts"
    /\ LET providerName == ck.buckets[ck.idx].provider
           call == [op |-> "createOrder", provider |-> providerName,
                    externalId |-> ExternalIdOf(orders[ck.orderId])]
       IN IF NoRateSelected(ck.selectedRates, providerName)
          THEN /\ ck' = CkFail("NoRateSelected", providerName)
               /\ UNCHANGED drafts
          ELSE IF providerName = Manual
          THEN /\ ck' = AfterBucket(ck, ck.idx)
               /\ UNCHANGED drafts
          ELSE IF ~HasProvider(providerName)
          THEN /\ ck' = CkFail("ProviderNotConfigured", providerName)
               /\ UNCHANGED drafts
          ELSE \E ok \in BOOLEAN :
                 IF ok
                 THEN LET draftId == Cardinality(drafts) + 1
                      IN /\ drafts' = drafts \cup
                              {[provider |-> providerName, id |-> draftId,
                                externalId |-> call.externalId,
                                recipient |-> BuildRecipient(ck.address),
                                status |-> "draft"]}
                         /\ ck' = AfterBucket(
                                [ck EXCEPT !.draftOrderIds =
                                               Append(@, [provider |-> providerName,
                                                          id |-> draftId]),
                                           !.calls = Append(@, call)],
                                ck.idx)
                 ELSE /\ ck' = [CkFail("CreateDraftFailed", providerName)
                                   EXCEPT !.calls = Append(@, call)]
                      /\ UNCHANGED drafts
    /\ UNCHANGED <<wh, syncState, sy, products, configured, paymentConfigured, orders, sessions, now, sw, qt>>

\* CheckoutSessionInputSchema: the payment provider's createCheckout takes a
\* positive amount and line items of positive unitAmount and quantity; a call
\* with any other input fails
ValidSessionInput(amount, lines) ==
    /\ amount > 0
    /\ \A k \in 1..Len(lines) : lines[k].unitAmount > 0 /\ lines[k].quantity > 0

\* lines 943-987: the payment session
CheckoutPayment ==
    /\ ck.pc = "payment"
    /\ IF ~paymentConfigured
       THEN /\ ck' = CkFail("PaymentNotConfigured", "")
            /\ UNCHANGED sessions
       ELSE LET call == [op |-> "payment.createCheckout", provider |-> "stripe",
                         externalId |-> ck.orderId]
                amount == ToMinor(ck.totalAmount)
                lineItems == LineItems(ck.buckets, ck.shippingCost)
            IN \E ok \in BOOLEAN :
                 IF ok /\ ValidSessionInput(amount, lineItems)
                 THEN LET sessionId == Cardinality(sessions) + 1
                      IN /\ sessions' = sessions \cup
                              {[sessionId |-> sessionId, orderId |-> ck.orderId,
                                amount |-> amount,
                                items |-> lineItems,
                                metadata |-> StringifyIds(ck.draftOrderIds),
                                status |-> "open"]}
                         /\ ck' = [ck EXCEPT !.pc = "updateCheckout",
                                             !.sessionId = sessionId,
                                             !.calls = Append(@, call)]
                 ELSE /\ ck' = [CkFail("PaymentFailed", "stripe")
                                   EXCEPT !.calls = Append(@, call)]
                      /\ UNCHANGED sessions
    /\ UNCHANGED <<wh, syncState, sy, products, configured, paymentConfigured, orders, drafts, now, sw, qt>>

\* line 989: orderStore.updateCheckout
CheckoutUpdateCheckout ==
    /\ ck.pc = "updateCheckout"
    /\ \E ok \in BOOLEAN :
         IF ok
         THEN /\ orders' = UpdateCheckout(ck.orderId, ck.sessionId, "stripe")
              /\ ck' = [ck EXCEPT !.pc = "updateDraftOrderIds"]
         ELSE /\ ck' = CkFail("UpdateCheckoutFailed", "")
              /\ UNCHANGED orders
    /\ UNCHANGED <<wh, syncState, sy, products, configured, paymentConfigured, drafts, sessions, now, sw, qt>>

\* line 991: orderStore.updateDraftOrderIds
CheckoutUpdateDraftOrderIds ==
    /\ ck.pc = "updateDraftOrderIds"
    /\ \E ok \in BOOLEAN :
         IF ok
         THEN /\ orders' = UpdateDraftOrderIds(ck.orderId, ck.draftOrderIds)
              /\ ck' = [ck EXCEPT !.pc = "updateStatus"]
         ELSE /\ ck' = CkFail("UpdateDraftOrderIdsFailed", "")
              /\ UNCHANGED orders
    /\ UNCHANGED <<wh, syncState, sy, products, configured, paymentConfigured, drafts, sessions, now, sw, qt>>

\* lines 993-1000: orderStore.updateStatus, then the output
CheckoutUpdateStatus ==
    /\ ck.pc = "updateStatus"
    /\ \E ok \in BOOLEAN :
         IF ok
         THEN /\ orders' = UpdateStatus(ck.orderId, "draft_created")
              /\ ck' = [ck EXCEPT !.pc = "done"]
         ELSE /\ ck' = CkFail("UpdateStatusFailed", "")
              /\ UNCHANGED orders
    /\ UNCHANGED <<wh, syncState, sy, products, configured, paymentConfigured, drafts, sessions, now, sw, qt>>

\* the output or the error has gone to the caller: the request's local
\* variables are dropped
CheckoutReturn ==
    /\ ck.pc \in {"done", "failed"}
    /\ ck' = CkIdle
    /\ UNCHANGED <<wh, syncState, sy, products, configured, paymentConfigured, orders, drafts, sessions, now, sw, qt>>

----------------------------------------------------------------------------
(* cleanupAbandonedDrafts, the abandonment sweeper *)

MaxAgeHoursInputs == {1, 2}

\* the orders findAbandonedDrafts can return for a set of ids: newest first
\* (ORDER BY created_at DESC), rows of equal age in either order
NewestFirst(ids) ==
    {s \in [1..Cardinality(ids) -> ids] :
        /\ Range(s) = ids
        /\ \A a, b \in 1..Len(s) :
             a < b => orders[s[a]].createdAt >= orders[s[b]].createdAt}

\* !order.draftOrderIds || Object.keys(order.draftOrderIds).length === 0
HasNoDrafts(order) == order.draftOrderIds.isNull \/ Len(order.draftOrderIds.entries) = 0

OutcomeAnySucceeded(results) ==
    IF \E k \in 1..Len(results) : results[k].success THEN "cancelled" ELSE "failed"

\* lines 95-109: the status the order is given, "failed" standing for no change
Outcome(results) ==
    LET allSucceeded == \A k \in 1..Len(results) : results[k].success
        anySucceeded == \E k \in 1..Len(results) : results[k].success
    IN IF allSucceeded THEN "cancelled"
       ELSE IF anySucceeded THEN "partially_cancelled"
       ELSE "failed"

CountWithoutFailed(c, outcome) ==
    CASE outcome = "cancelled" -> [c EXCEPT !.cancelled = @ + 1]
      [] outcome = "partially_cancelled" -> [c EXCEPT !.partiallyCancelled = @ + 1]
      [] OTHER -> c

\* the counters after one order's outcome
Count(c, outcome) ==
    CASE outcome = "cancelled" -> [c EXCEPT !.cancelled = @ + 1]
      [] outcome = "partially_cancelled" -> [c EXCEPT !.partiallyCancelled = @ + 1]
      [] OTHER -> [c EXCEPT !.failed = @ + 1]

NextEntryStopsOnFailure(j, success) ==
    IF success THEN j + 1 ELSE j + Cardinality(Registry)

\* the entry of Object.entries(order.draftOrderIds) the loop turns to after
\* entry j, whatever entry j's result was
NextEntry(j, success) == j + 1

SwIdle ==
    [pc |-> "idle", maxAgeHours |-> 0, abandoned |-> <<>>, i |-> 0, j |-> 0,
     results |-> <<>>, cancelled |-> 0, partiallyCancelled |-> 0, failed |-> 0,
     errors |-> <<>>, totalProcessed |-> 0, outcomes |-> <<>>, cancelCalls |-> <<>>]

SwInFlight == sw.pc \in {"cancel", "decide"}

\* the sweep turned to abandoned order i: straight to the status update when the
\* order has no draft ids, to its first entry otherwise; past the last order the
\* result is built
AtOrder(s, i) ==
    IF i > Len(s.abandoned)
    THEN [s EXCEPT !.pc = "done", !.i = i, !.j = 0, !.results = <<>>,
                   !.totalProcessed = Len(s.abandoned)]
    ELSE [s EXCEPT !.pc = IF HasNoDrafts(s.abandoned[i]) THEN "decide" ELSE "cancel",
                   !.i = i, !.j = 1, !.results = <<>>]

\* the sweep after entry j of the current order produced success
AfterEntry(s, success) ==
    LET order == s.abandoned[s.i]
        next == NextEntry(s.j, success)
    IN IF next > Len(order.draftOrderIds.entries)
       THEN [s EXCEPT !.pc = "decide", !.j = next]
       ELSE [s EXCEPT !.j = next]

\* lines 16-37: findAbandonedDrafts, and the early return on an empty list
SweepStart ==
    /\ sw.pc = "idle" /\ ck.pc = "idle"
    /\ \E maxAgeHours \in MaxAgeHoursInputs, found \in BOOLEAN :
         IF ~found
         THEN sw' = [SwIdle EXCEPT !.pc = "failed", !.maxAgeHours = maxAgeHours]
         ELSE \E s \in NewestFirst(AbandonedIds(maxAgeHours)) :
                sw' = AtOrder(
                        [SwIdle EXCEPT !.maxAgeHours = maxAgeHours,
                                       !.abandoned = [k \in 1..Len(s) |-> orders[s[k]]]],
                        1)
    /\ UNCHANGED <<wh, syncState, sy, products, configured, paymentConfigured, orders, drafts, sessions, now, ck, qt>>

\* lines 51-93: one entry of Object.entries(order.draftOrderIds)
SweepCancel ==
    /\ sw.pc = "cancel"
    /\ LET order == sw.abandoned[sw.i]
           entry == order.draftOrderIds.entries[sw.j]
           error == [orderId |-> order.id, provider |-> entry.provider]
           result(success) == [provider |-> entry.provider, success |-> success]
       IN IF ~HasProvider(entry.provider)
          THEN /\ sw' = AfterEntry(
                          [sw EXCEPT !.results = Append(@, result(FALSE)),
                                     !.errors = Append(@, error)],
                          FALSE)
               /\ UNCHANGED drafts
          ELSE \E ok \in BOOLEAN :
                 LET called == [sw EXCEPT !.cancelCalls =
                                   Append(@, [orderId |-> order.id,
                                              provider |-> entry.provider,
                                              id |-> entry.id])]
                 IN IF ok
                    THEN /\ drafts' =
                              {IF d.provider = entry.provider /\ d.id = entry.id
                               THEN [d EXCEPT !.status = "cancelled"] ELSE d : d \in drafts}
                         /\ sw' = AfterEntry(
                                    [called EXCEPT !.results = Append(@, result(TRUE))],
                                    TRUE)
                    ELSE /\ sw' = AfterEntry(
                                    [called EXCEPT !.results = Append(@, result(FALSE)),
                                                   !.errors = Append(@, error)],
                                    FALSE)
                         /\ UNCHANGED drafts
    /\ UNCHANGED <<wh, syncState, sy, products, configured, paymentConfigured, orders, sessions, now, ck, qt>>

\* lines 42-47 and 95-109: the order's outcome, then the next order; a failing
\* orderStore.updateStatus fails the whole sweep
SweepDecide ==
    /\ sw.pc = "decide"
    /\ LET order == sw.abandoned[sw.i]
           outcome == IF HasNoDrafts(order) THEN "cancelled" ELSE Outcome(sw.results)
           counted == Count(sw, outcome)
           logged == [counted EXCEPT !.outcomes =
                         Append(@, [orderId |-> order.id, outcome |-> outcome,
                                    results |-> sw.results])]
       IN IF outcome = "failed"
          THEN /\ sw' = AtOrder(logged, sw.i + 1)
               /\ UNCHANGED orders
          ELSE \E ok \in BOOLEAN :
                 IF ok
                 THEN /\ orders' = UpdateStatus(order.id, outcome)
                      /\ sw' = AtOrder(logged, sw.i + 1)
                 ELSE /\ sw' = [sw EXCEPT !.pc = "failed"]
                      /\ UNCHANGED orders
    /\ UNCHANGED <<wh, syncState, sy, products, configured, paymentConfigured, drafts, sessions, now, ck, qt>>

\* the CleanupResult or the error has gone to the caller
SweepReturn ==
    /\ sw.pc \in {"done", "failed"}
    /\ sw' = SwIdle
    /\ UNCHANGED <<wh, syncState, sy, products, configured, paymentConfigured, orders, drafts, sessions, now, ck, qt>>

----------------------------------------------------------------------------
(* The environment *)

\* an hour passes; a checkout request lasts far less than an hour
Tick ==
    /\ now < MaxTime
    /\ ck.pc = "idle" /\ sw.pc = "idle"
    /\ now' = now + 1
    /\ UNCHANGED <<wh, syncState, sy, products, configured, paymentConfigured, orders, drafts, sessions, ck, sw, qt>>

\* createMarketplaceRuntime runs again with another configuration while no
\* request is being served
Restart ==
    /\ ck.pc = "idle" /\ sw.pc = "idle"
    /\ \E c \in SUBSET Registry, p \in BOOLEAN :
         /\ <<c, p>> # <<configured, paymentConfigured>>
         /\ configured' = c
         /\ paymentConfigured' = p
    /\ UNCHANGED <<wh, syncState, sy, products, orders, drafts, sessions, now, ck, sw, qt>>

----------------------------------------------------------------------------
(* getQuote *)

\* The rates a provider's quoteOrder can answer with; 0 days stands for an
\* absent minDeliveryDays / maxDeliveryDays.
ProviderRates ==
    {[id |-> "r1", name |-> "Standard", rate |-> 5,
      minDeliveryDays |-> 3, maxDeliveryDays |-> 7],
     [id |-> "r2", name |-> "Express", rate |-> 8,
      minDeliveryDays |-> 1, maxDeliveryDays |-> 2],
     [id |-> "r3", name |-> "Economy", rate |-> 5,
      minDeliveryDays |-> 0, maxDeliveryDays |-> 0]}

\* quoteOrder throws, or answers with a list of rates (quoteResult.rates || [])
QuoteAnswers ==
    {[ok |-> FALSE, rates |-> <<>>]}
        \cup {[ok |-> TRUE, rates |-> r] : r \in SeqsUpTo(ProviderRates, MaxRates)}

\* if (rates.length === 0)
RatesUnavailable(rates) == Len(rates) = 0

\* rates.reduce((cheapest, rate) => rate.rate < cheapest.rate ? rate : cheapest):
\* the index of the rate the fold ends with
RECURSIVE CheapestFrom(_, _, _)
CheapestFrom(rates, cheapest, i) ==
    IF i > Len(rates) THEN cheapest
    ELSE CheapestFrom(rates,
                      IF rates[i].rate < rates[cheapest].rate THEN i ELSE cheapest,
                      i + 1)

CheapestIsFirst(rates) == 1

\* the index of the selectedRate in a non-empty rates
Cheapest(rates) == CheapestFrom(rates, 1, 2)

\* a ShippingRate as a ProviderShippingOption of the provider
ShippingOption(providerName, rate) ==
    [provider |-> providerName, rateId |-> rate.id, rateName |-> rate.name,
     shippingCost |-> rate.rate,
     minDeliveryDays |-> rate.minDeliveryDays, maxDeliveryDays |-> rate.maxDeliveryDays]

ManualShippingAtProviderRate ==
    [provider |-> Manual, rateId |-> "manual-standard", rateName |-> "Standard Shipping",
     shippingCost |-> 5, minDeliveryDays |-> 3, maxDeliveryDays |-> 7]

\* lines 712-720: the flat rate of the manual bucket
ManualShipping ==
    [provider |-> Manual, rateId |-> "manual-standard", rateName |-> "Standard Shipping",
     shippingCost |-> 0, minDeliveryDays |-> 5, maxDeliveryDays |-> 10]

\* providerItems.reduce((sum, pi) => sum + pi.price * pi.item.quantity, 0)
RECURSIVE BucketSubtotal(_)
BucketSubtotal(items) ==
    IF Len(items) = 0 THEN 0
    ELSE items[1].price * items[1].quantity + BucketSubtotal(Tail(items))

\* the running minimum / maximum of the delivery days, 0 for undefined
MinDays(current, days) ==
    IF days = 0 THEN current
    ELSE IF current = 0 \/ days < current THEN days ELSE current

MaxDays(current, days) ==
    IF days = 0 THEN current
    ELSE IF current = 0 \/ days > current THEN days ELSE current

QuoteTotalWithoutShipping(subtotal, shippingCost) == subtotal

\* total: totalSubtotal + totalShippingCost
QuoteTotal(subtotal, shippingCost) == subtotal + shippingCost

NoQuote ==
    [present |-> FALSE, subtotal |-> 0, shippingCost |-> 0, total |-> 0,
     providerBreakdown |-> <<>>, minDays |-> 0, maxDays |-> 0]

QtIdle ==
    [pc |-> "idle", items |-> <<>>, buckets |-> <<>>, idx |-> 0, subtotal |-> 0,
     providerBreakdown |-> <<>>, totalShippingCost |-> 0,
     minDeliveryDays |-> 0, maxDeliveryDays |-> 0,
     calls |-> <<>>, error |-> NoError, result |-> NoQuote]

\* the request once bucket idx has been dealt with: the next bucket, or the
\* quote of lines 820-830
AfterQuoteBucket(q, idx) ==
    IF idx >= Len(q.buckets)
    THEN [q EXCEPT !.pc = "done", !.idx = idx + 1,
                   !.result = [present |-> TRUE,
                               subtotal |-> q.subtotal,
                               shippingCost |-> q.totalShippingCost,
                               total |-> QuoteTotal(q.subtotal, q.totalShippingCost),
                               providerBreakdown |-> q.providerBreakdown,
                               minDays |-> q.minDeliveryDays,
                               maxDays |-> q.maxDeliveryDays]]
    ELSE [q EXCEPT !.idx = idx + 1]

\* the breakdown entry pushed for a bucket, and the totals after it
WithBreakdown(q, bucket, selected, available, addedShipping) ==
    [q EXCEPT !.providerBreakdown =
                  Append(@, [provider |-> bucket.provider,
                             itemCount |-> Len(bucket.items),
                             subtotal |-> BucketSubtotal(bucket.items),
                             selectedShipping |-> selected,
                             availableRates |-> available]),
              !.totalShippingCost = @ + addedShipping,
              !.minDeliveryDays = MinDays(@, selected.minDeliveryDays),
              !.maxDeliveryDays = MaxDays(@, selected.maxDeliveryDays)]

QuoteSkipsUnconfigured(q, bucket) ==
    IF bucket.provider = Manual
    THEN AfterQuoteBucket(
            WithBreakdown(q, bucket, ManualShipping, <<ManualShipping>>, 0), q.idx)
    ELSE AfterQuoteBucket(q, q.idx)

\* lines 705-743: the bucket of a provider the runtime does not hold: the flat
\* rate for manual, a failure of the whole quote otherwise
QuoteWithoutProvider(q, bucket) ==
    IF bucket.provider = Manual
    THEN AfterQuoteBucket(
            WithBreakdown(q, bucket, ManualShipping, <<ManualShipping>>, 0), q.idx)
    ELSE [q EXCEPT !.pc = "failed",
                   !.error = Err("ProviderNotConfigured", bucket.provider)]

QuoteFailCarriesOn(q, kind, provider) ==
    AfterQuoteBucket([q EXCEPT !.error = Err(kind, provider)], q.idx)

\* return yield* Effect.fail(...) or a failed yield* inside the loop: the
\* request ends with the error, the remaining buckets are not visited
QuoteFail(q, kind, provider) ==
    [q EXCEPT !.pc = "failed", !.error = Err(kind, provider)]

QuoteCallAsCreateOrder(providerName, answer) ==
    [op |-> "createOrder", provider |-> providerName, answer |-> answer]

\* lines 747-760: the one remote call of a bucket, provider.client.quoteOrder
QuoteCall(providerName, answer) ==
    [op |-> "quoteOrder", provider |-> providerName, answer |-> answer]

\* lines 654-700: resolve the cart
QuoteStart ==
    /\ qt.pc = "idle"
    /\ \E items \in Carts :
         IF FirstMissing(items, 1) # 0
         THEN qt' = [QtIdle EXCEPT !.pc = "failed", !.items = items,
                                   !.error = Err("ProductNotFound", "")]
         ELSE qt' = AfterQuoteBucket(
                      [QtIdle EXCEPT !.pc = "buckets", !.items = items,
                                     !.buckets = ItemsByProvider(items),
                                     !.subtotal = Subtotal(items)],
                      0)
    /\ UNCHANGED <<wh, syncState, sy, products, configured, paymentConfigured, orders, drafts, sessions, now, ck, sw>>

\* lines 702-818: one pass of the loop over itemsByProvider.entries()
QuoteBucket ==
    /\ qt.pc = "buckets"
    /\ LET bucket == qt.buckets[qt.idx]
           providerName == bucket.provider
       IN IF ~HasProvider(providerName)
          THEN qt' = QuoteWithoutProvider(qt, bucket)
          ELSE \E answer \in QuoteAnswers :
                 LET called == [qt EXCEPT !.calls =
                                   Append(@, QuoteCall(providerName, answer))]
                 IN IF ~answer.ok
                    THEN qt' = QuoteFail(called, "QuoteFailed", providerName)
                    ELSE IF RatesUnavailable(answer.rates)
                    THEN qt' = QuoteFail(called, "NoRates", providerName)
                    ELSE LET rates == answer.rates
                             selectedRate == rates[Cheapest(rates)]
                             availableRates ==
                                 [k \in 1..Len(rates) |->
                                     ShippingOption(providerName, rates[k])]
                         IN qt' = AfterQuoteBucket(
                                    WithBreakdown(called, bucket,
                                        ShippingOption(providerName, selectedRate),
                                        availableRates, selectedRate.rate),
                                    qt.idx)
    /\ UNCHANGED <<wh, syncState, sy, products, configured, paymentConfigured, orders, drafts, sessions, now, ck, sw>>

\* the quote or the error has gone to the caller
QuoteReturn ==
    /\ qt.pc \in {"done", "failed"}
    /\ qt' = QtIdle
    /\ UNCHANGED <<wh, syncState, sy, products, configured, paymentConfigured, orders, drafts, sessions, now, ck, sw>>

----------------------------------------------------------------------------
(* ProductService.sync: the request record *)

SyIdle ==
    [pc |-> "idle", unfetched |-> {}, remaining |-> [p \in {} |-> <<>>],
     count |-> 0, error |-> NoError]

----------------------------------------------------------------------------
(* GelatoService.verifyWebhookSignature *)

\* A string, as far as the check tells strings apart: what it says (a sequence
\* of pieces) and how many bytes Buffer.from makes of it.
Str(text, bytes) == [text |-> text, bytes |-> bytes]

Empty == Str(<<>>, 0)

\* the webhook secrets a service is built with: none, a short one, and one as
\* long as a hex digest
SecretInputs == {Empty, Str(<<"whsec">>, 5), Str(<<"a secret of 64 bytes">>, 64)}

BodyInputs == {Str(<<"{}">>, 2), Str(<<"{event: order_status_updated}">>, 32)}

\* crypto.createHmac('sha256', secret).update(body).digest('hex'): 64 hex
\* digits, one digest for each secret and body
HmacHex(secret, body) == Str(<<"hmac-sha256">> \o secret.text \o body.text, 64)

\* the signatures a caller can send: nothing, a secret, the digest of some body
\* under some secret, and other text of 64 bytes and of 7 bytes
SignatureInputs ==
    {Empty, Str(<<"garbage">>, 7), Str(<<"64 hex digits that are no digest">>, 64)}
        \cup (SecretInputs \ {Empty})
        \cup {HmacHex(secret, body) : secret \in SecretInputs \ {Empty}, body \in BodyInputs}

\* lines 473-490: false without a secret or a signature; timingSafeEqual of the
\* two buffers when they are equally long; when they are not, timingSafeEqual
\* throws and the catch compares the signature with the secret itself
VerifyWebhookSignature(webhookSecret, body, signature) ==
    IF webhookSecret.bytes = 0 \/ signature.bytes = 0 THEN FALSE
    ELSE LET calculatedSignature == HmacHex(webhookSecret, body)
         IN IF signature.bytes = calculatedSignature.bytes
            THEN signature = calculatedSignature
            ELSE signature = webhookSecret

WhIdle == [webhookSecret |-> Empty, body |-> Empty, signature |-> Empty, result |-> FALSE]

----------------------------------------------------------------------------
(* Specifications *)

Init ==
    /\ wh = WhIdle
    /\ syncState = "none"
    /\ sy = SyIdle
    /\ products = Catalog
    /\ configured \in SUBSET Registry
    /\ paymentConfigured \in BOOLEAN
    /\ orders = <<>>
    /\ drafts = {}
    /\ sessions = {}
    /\ now = 0
    /\ ck = CkIdle
    /\ sw = SwIdle
    /\ qt = QtIdle

\* The store front, the sweeper and the clock. Requests are served one at a
\* time: a sweep only touches orders at least an hour old, a checkout only the
\* order it created, so their interleavings add no behaviour.
Next ==
    \/ StorefrontCheckoutStart
    \/ CheckoutBucket
    \/ CheckoutPayment
    \/ CheckoutUpdateCheckout
    \/ CheckoutUpdateDraftOrderIds
    \/ CheckoutUpdateStatus
    \/ CheckoutReturn
    \/ SweepStart
    \/ SweepCancel
    \/ SweepDecide
    \/ SweepReturn
    \/ Tick
    \/ Restart

Spec == Init /\ [][Next]_vars

\* createCheckout alone, over all its inputs
CheckoutNext ==
    \/ CheckoutStart
    \/ CheckoutBucket
    \/ CheckoutPayment
    \/ CheckoutUpdateCheckout
    \/ CheckoutUpdateDraftOrderIds
    \/ CheckoutUpdateStatus
    \/ CheckoutReturn

CheckoutSpec == Init /\ [][CheckoutNext]_vars

\* getQuote alone, over all its inputs and all the providers' answers
QuoteNext ==
    \/ QuoteStart
    \/ QuoteBucket
    \/ QuoteReturn

QuoteSpec == Init /\ [][QuoteNext]_vars

----------------------------------------------------------------------------
(* Properties of createCheckout *)

\* the [provider, id] entries of the drafts that exist at the providers for an
\* order
RemoteEntries(orderId) ==
    {[provider |-> d.provider, id |-> d.id] :
        d \in {x \in drafts : x.externalId = orderId}}

\* the providers of the buckets that are not the manual bucket, in bucket order
NonManualProviders(buckets) ==
    LET names == [k \in 1..Len(buckets) |-> buckets[k].provider]
    IN SelectSeq(names, LAMBDA n : n # Manual)

\* createCheckout failed because the createOrder of the second of two non-manual
\* buckets threw, after the first one's draft was created
SecondProviderThrew ==
    /\ ck.pc = "failed"
    /\ ck.error.kind = "CreateDraftFailed"
    /\ Len(NonManualProviders(ck.buckets)) = 2
    /\ Len(ck.draftOrderIds) = 1
    /\ ck.draftOrderIds[1].provider = NonManualProviders(ck.buckets)[1]

\* C1: when the createOrder of provider B, the second of two non-manual buckets,
\* throws, the stored order's draftOrderIds holds exactly provider A's entry, the
\* stored status is still pending and the error names provider B.
C1_PartialDraftsStored ==
    SecondProviderThrew =>
        LET order == orders[ck.orderId]
        IN /\ ~order.draftOrderIds.isNull
           /\ Range(order.draftOrderIds.entries) = RemoteEntries(ck.orderId)
           /\ Len(order.draftOrderIds.entries) = 1
           /\ order.draftOrderIds.entries[1].provider = NonManualProviders(ck.buckets)[1]
           /\ order.status = "pending"
           /\ ck.error.provider = NonManualProviders(ck.buckets)[2]

\* the buckets the loop of createCheckout has dealt with and gone past
PassedBuckets ==
    {k \in 1..Len(ck.buckets) : k < ck.idx}

\* C6: within one createCheckout the local order exists, with status pending,
\* before any provider createOrder call; every createOrder call of every
\* non-manual bucket precedes the payment createCheckout call; every createOrder
\* call carries the local order's id as externalId.
C6_StepOrder ==
    /\ \A i \in 1..Len(ck.calls) :
         /\ ck.calls[i].op = "createOrder" =>
              /\ i > 1 /\ ck.calls[1].op = "orderStore.create"
              /\ ck.orderId \in OrderIds
              /\ ck.calls[i].externalId = orders[ck.orderId].id
              /\ \A j \in 1..i : ck.calls[j].op # "payment.createCheckout"
         /\ ck.calls[i].op = "payment.createCheckout" =>
              /\ ck.calls[1].op = "orderStore.create"
              /\ \A k \in 1..Len(ck.buckets) :
                   ck.buckets[k].provider # Manual =>
                     \E j \in 1..(i - 1) :
                        /\ ck.calls[j].op = "createOrder"
                        /\ ck.calls[j].provider = ck.buckets[k].provider
    /\ CkInFlight /\ ck.pc # "updateStatus" => orders[ck.orderId].status = "pending"
    /\ \A d \in drafts : d.externalId \in OrderIds

\* a checkout that created two drafts and then the payment session
C6_Witness ==
    /\ ck.pc = "done"
    /\ Len(ck.draftOrderIds) = 2
    /\ ck.calls[Len(ck.calls)].op = "payment.createCheckout"

\* C7 as stated: only non-manual buckets need a selectedRates entry: the request
\* fails when a non-manual bucket has none, and never fails for want of an entry
\* for the manual bucket.
C7_OnlyNonManualNeedsRate ==
    /\ \A k \in PassedBuckets :
         ck.buckets[k].provider # Manual =>
            RateOf(ck.selectedRates, ck.buckets[k].provider) # ""
    /\ (ck.pc = "failed" /\ ck.error.kind = "NoRateSelected") =>
          ck.error.provider # Manual

\* C7 as amended: every bucket with items, the manual one included, needs a
\* non-empty selectedRates entry: the loop goes past a bucket only if it has one,
\* and the request fails, naming the bucket, at the first bucket that has none.
C7_EveryBucketNeedsRate ==
    /\ \A k \in PassedBuckets :
         RateOf(ck.selectedRates, ck.buckets[k].provider) # ""
    /\ (ck.pc = "failed" /\ ck.error.kind = "NoRateSelected") =>
          /\ ck.idx \in 1..Len(ck.buckets)
          /\ ck.error.provider = ck.buckets[ck.idx].provider
          /\ RateOf(ck.selectedRates, ck.error.provider) = ""
    /\ ck.pc = "done" =>
          \A k \in 1..Len(ck.buckets) :
             RateOf(ck.selectedRates, ck.buckets[k].provider) # ""

\* a cart of manual items only, refused for want of a selectedRates entry for
\* manual
C7_Witness ==
    /\ ck.pc = "failed"
    /\ ck.error = Err("NoRateSelected", Manual)
    /\ Len(ck.buckets) = 1
    /\ Manual \notin DOMAIN ck.selectedRates

----------------------------------------------------------------------------
(* Properties of the sweeper *)

\* the order the sweep is at
SweptOrder == sw.abandoned[sw.i]

SweepCalled(orderId, entry) ==
    \E c \in 1..Len(sw.cancelCalls) :
       sw.cancelCalls[c] = [orderId |-> orderId, provider |-> entry.provider,
                            id |-> entry.id]

\* C2: every draft that a failed createCheckout left at a provider is cancelled
\* by the sweeper: a sweep that runs when the order is older than maxAgeHours
\* selects the order and calls cancelOrder for the draft.
C2_OrphanDraftsSwept ==
    sw.pc = "done" =>
       \A d \in drafts :
          ( /\ d.status = "draft"
            /\ HasProvider(d.provider)
            /\ orders[d.externalId].status = "pending"
            /\ orders[d.externalId].createdAt < now - sw.maxAgeHours )
          => SweepCalled(d.externalId, d)

\* C3: an order without recorded draft ids is set to cancelled without a
\* provider call; otherwise all cancellations succeeded: cancelled; some but not
\* all: partially_cancelled; none: the status stays draft_created. (An order
\* whose updateStatus call fails is not processed to the end: the sweep fails.)
C3_SweepOutcome ==
    [][ (sw.pc = "decide" /\ sw' # sw /\ sw'.pc # "failed") =>
          LET id == SweptOrder.id
              succeeded == {k \in 1..Len(sw.results) : sw.results[k].success}
          IN IF HasNoDrafts(SweptOrder)
             THEN /\ orders'[id].status = "cancelled"
                  /\ \A c \in 1..Len(sw.cancelCalls) : sw.cancelCalls[c].orderId # id
             ELSE /\ Len(sw.results) = Len(SweptOrder.draftOrderIds.entries)
                  /\ IF Cardinality(succeeded) = Len(sw.results)
                     THEN orders'[id].status = "cancelled"
                     ELSE IF succeeded # {}
                     THEN orders'[id].status = "partially_cancelled"
                     ELSE /\ orders'[id].status = orders[id].status
                          /\ orders'[id].status = "draft_created" ]_vars

\* a sweep that set an order to partially_cancelled
C3_Witness ==
    \E k \in 1..Len(sw.outcomes) :
       /\ sw.outcomes[k].outcome = "partially_cancelled"
       /\ orders[sw.outcomes[k].orderId].status = "partially_cancelled"

\* C4: once the sweep is through the draftOrderIds of an order, cancelOrder has
\* been called for every entry whose provider is configured, whatever the other
\* entries' results, and each entry that failed (or whose provider is not
\* configured) has exactly one element of errors naming the order and provider.
C4_EveryProviderAttempted ==
    (sw.pc = "decide" /\ ~HasNoDrafts(SweptOrder)) =>
       LET entries == SweptOrder.draftOrderIds.entries
           errorsOf(provider) ==
               {e \in 1..Len(sw.errors) :
                   sw.errors[e] = [orderId |-> SweptOrder.id, provider |-> provider]}
       IN /\ Len(sw.results) = Len(entries)
          /\ \A k \in 1..Len(entries) :
               /\ sw.results[k].provider = entries[k].provider
               /\ HasProvider(entries[k].provider) <=> SweepCalled(SweptOrder.id, entries[k])
               /\ ~HasProvider(entries[k].provider) => ~sw.results[k].success
               /\ Cardinality(errorsOf(entries[k].provider)) =
                     IF sw.results[k].success THEN 0 ELSE 1

\* the first entry's cancel failed and the second entry's cancel was still made,
\* and succeeded
C4_Witness ==
    /\ sw.pc = "decide"
    /\ Len(sw.results) = 2
    /\ ~sw.results[1].success
    /\ sw.results[2].success
    /\ Len(sw.cancelCalls) >= 1

\* the number of orders of the sweep with the given outcome
OutcomeCount(outcome) ==
    Cardinality({k \in 1..Len(sw.outcomes) : sw.outcomes[k].outcome = outcome})

\* C5: the result of a sweep counts the outcomes: cancelled, partiallyCancelled
\* and failed are the numbers of selected orders set to cancelled, set to
\* partially_cancelled and left in draft_created; totalProcessed is the number of
\* orders selected, and the sum of the three.
C5_ResultCounts ==
    sw.pc = "done" =>
       /\ sw.totalProcessed = Len(sw.abandoned)
       /\ Len(sw.outcomes) = Len(sw.abandoned)
       /\ \A k \in 1..Len(sw.abandoned) : sw.outcomes[k].orderId = sw.abandoned[k].id
       /\ sw.cancelled = OutcomeCount("cancelled")
       /\ sw.partiallyCancelled = OutcomeCount("partially_cancelled")
       /\ sw.failed = OutcomeCount("failed")
       /\ sw.totalProcessed = sw.cancelled + sw.partiallyCancelled + sw.failed
       /\ \A k \in 1..Len(sw.outcomes) :
            orders[sw.outcomes[k].orderId].status =
               IF sw.outcomes[k].outcome = "failed" THEN "draft_created"
               ELSE sw.outcomes[k].outcome

\* a sweep of two orders, one cancelled and one left in draft_created
C5_Witness ==
    /\ sw.pc = "done"
    /\ sw.totalProcessed = 2
    /\ sw.cancelled = 1
    /\ sw.failed = 1

----------------------------------------------------------------------------
(* Properties of getQuote *)

\* the selectedShipping.shippingCost of the breakdown entries
SelectedCosts(breakdown) ==
    [k \in 1..Len(breakdown) |-> breakdown[k].selectedShipping.shippingCost]

\* C8: for every quote getQuote returns, total = subtotal + shippingCost and
\* shippingCost is the sum of selectedShipping.shippingCost over the entries of
\* providerBreakdown.
C8_QuoteTotals ==
    qt.pc = "done" =>
       /\ qt.result.present
       /\ qt.result.total = qt.result.subtotal + qt.result.shippingCost
       /\ qt.result.shippingCost = SumSeq(SelectedCosts(qt.result.providerBreakdown))

\* a quote over two buckets with a shipping cost
C8_Witness ==
    /\ qt.pc = "done"
    /\ Len(qt.result.providerBreakdown) = 2
    /\ qt.result.shippingCost > 0
    /\ qt.result.subtotal > 0

\* C9: in every entry of a quote's providerBreakdown, selectedShipping is one of
\* availableRates and no available rate costs less than it.
C9_CheapestSelected ==
    qt.pc = "done" =>
       \A k \in 1..Len(qt.result.providerBreakdown) :
          LET entry == qt.result.providerBreakdown[k]
          IN /\ entry.selectedShipping \in Range(entry.availableRates)
             /\ \A r \in Range(entry.availableRates) :
                   entry.selectedShipping.shippingCost <= r.shippingCost

\* a quote whose provider answered with the dearer rate first
C9_Witness ==
    /\ qt.pc = "done"
    /\ \E k \in 1..Len(qt.result.providerBreakdown) :
         LET entry == qt.result.providerBreakdown[k]
         IN /\ Len(entry.availableRates) = 2
            /\ entry.availableRates[1].shippingCost > entry.availableRates[2].shippingCost
            /\ entry.selectedShipping = entry.availableRates[2]

\* the quoteOrder answer a bucket's provider gave in this request, when it gave one
AnswersOf(providerName) ==
    {qt.calls[c].answer : c \in {x \in 1..Len(qt.calls) : qt.calls[x].provider = providerName}}

\* C10: getQuote returns a quote only if the provider of every non-manual bucket
\* is configured and answered quoteOrder with at least one rate; otherwise it
\* fails with an error naming the provider of the bucket that was not configured,
\* whose call failed or whose rate list was empty, and returns no quote, whatever
\* the buckets before it returned.
C10_AllOrNothing ==
    /\ qt.pc = "done" =>
          /\ Len(qt.result.providerBreakdown) = Len(qt.buckets)
          /\ \A k \in 1..Len(qt.buckets) :
               qt.buckets[k].provider # Manual =>
                  /\ HasProvider(qt.buckets[k].provider)
                  /\ \E a \in AnswersOf(qt.buckets[k].provider) :
                        a.ok /\ Len(a.rates) > 0
    /\ qt.pc = "failed" => ~qt.result.present
    /\ (qt.pc = "failed" /\ qt.error.kind # "ProductNotFound") =>
          /\ qt.idx \in 1..Len(qt.buckets)
          /\ qt.error.provider = qt.buckets[qt.idx].provider
          /\ qt.error.provider # Manual
          /\ \/ qt.error.kind = "ProviderNotConfigured" /\ ~HasProvider(qt.error.provider)
             \/ /\ qt.error.kind = "QuoteFailed"
                /\ [ok |-> FALSE, rates |-> <<>>] \in AnswersOf(qt.error.provider)
             \/ /\ qt.error.kind = "NoRates"
                /\ [ok |-> TRUE, rates |-> <<>>] \in AnswersOf(qt.error.provider)
    /\ qt.pc \in {"idle", "buckets"} => ~qt.result.present

\* the second bucket's provider answered with no rates after the first bucket's
\* provider had answered with rates: no quote
C10_Witness ==
    /\ qt.pc = "failed"
    /\ qt.error.kind = "NoRates"
    /\ Len(qt.providerBreakdown) = 1
    /\ qt.providerBreakdown[1].provider # Manual
    /\ ~qt.result.present

----------------------------------------------------------------------------
(* The manual bucket of a quote *)

\* the breakdown entries a request has pushed for the manual bucket
ManualEntries ==
    {k \in 1..Len(qt.providerBreakdown) : qt.providerBreakdown[k].provider = Manual}

OnlyManualBuckets ==
    /\ Len(qt.buckets) > 0
    /\ \A k \in 1..Len(qt.buckets) : qt.buckets[k].provider = Manual

\* C11: getQuote calls no gateway for the manual bucket; the bucket's entry
\* offers exactly one rate -- manual-standard, Standard Shipping, cost 0, 5 to
\* 10 days -- which is also the selected one; a quote of manual items only has
\* shippingCost 0 and total = subtotal.
C11_ManualFlatRate ==
    /\ \A c \in Range(qt.calls) : c.provider # Manual
    /\ \A k \in ManualEntries :
         LET entry == qt.providerBreakdown[k]
         IN /\ Len(entry.availableRates) = 1
            /\ entry.availableRates[1] = entry.selectedShipping
            /\ entry.selectedShipping.rateId = "manual-standard"
            /\ entry.selectedShipping.rateName = "Standard Shipping"
            /\ entry.selectedShipping.shippingCost = 0
            /\ entry.selectedShipping.minDeliveryDays = 5
            /\ entry.selectedShipping.maxDeliveryDays = 10
    /\ (qt.result.present /\ OnlyManualBuckets) =>
         /\ qt.result.shippingCost = 0
         /\ qt.result.total = qt.result.subtotal
         /\ Len(qt.result.providerBreakdown) = 1

\* a cart of two stickers was quoted: subtotal 6, shipping 0, total 6
C11_Witness ==
    /\ qt.pc = "done"
    /\ qt.result.present
    /\ OnlyManualBuckets
    /\ qt.result.subtotal = 6
    /\ qt.result.total = 6
    /\ ManualEntries = {1}

----------------------------------------------------------------------------
(* A createCheckout that fails after its order was created *)

DraftStageErrors == {"NoRateSelected", "ProviderNotConfigured", "CreateDraftFailed"}
PaymentStageErrors == {"PaymentNotConfigured", "PaymentFailed"}

CallsOf(op) == {k \in 1..Len(ck.calls) : ck.calls[k].op = op}

\* what a failed request has left behind: only the effects of the steps before
\* the failing one
FailedAfterCreate ==
    LET order == orders[ck.orderId]
        kind == ck.error.kind
    IN /\ kind # "none"
       /\ ck.orderId \in OrderIds
       /\ order.status = "pending"
       /\ \A d \in drafts : d.externalId = ck.orderId => d.status = "draft"
       /\ RemoteEntries(ck.orderId) = Range(ck.draftOrderIds)
       /\ Cardinality(CallsOf("createOrder")) <= ck.idx
       /\ kind \in DraftStageErrors =>
            /\ ck.idx <= Len(ck.buckets)
            /\ CallsOf("payment.createCheckout") = {}
       /\ kind \in DraftStageErrors \cup PaymentStageErrors =>
            /\ \A s \in sessions : s.orderId # ck.orderId
            /\ order.checkoutSessionId = 0
       /\ kind = "UpdateCheckoutFailed" => order.checkoutSessionId = 0
       /\ kind # "UpdateStatusFailed" => order.draftOrderIds.isNull

\* C12: once createCheckout has failed after creating its order, the caller gets
\* an error, the order row is still there, the drafts already created at the
\* providers are still drafts (nothing was cancelled), and the request takes no
\* further step: no createOrder, no payment session, no update of the order.
C12_FailureAbortsWithoutRollback ==
    [][/\ ck.error # NoError => ck.pc = "failed"
       /\ (ck.pc = "failed" /\ ck.orderId # 0) =>
            /\ FailedAfterCreate
            /\ ck' = CkIdle
            /\ UNCHANGED <<orders, drafts, sessions>>]_vars

\* the payment session failed after both providers' drafts were created
C12_Witness ==
    /\ ck.pc = "failed"
    /\ ck.error.kind = "PaymentFailed"
    /\ Len(ck.draftOrderIds) = 2
    /\ Cardinality(RemoteEntries(ck.orderId)) = 2
    /\ orders[ck.orderId].status = "pending"

----------------------------------------------------------------------------
(* The persistence updates of a successful createCheckout *)

SessionPersisted(order) == order.checkoutSessionId # 0 /\ order.checkoutProvider = "stripe"

DraftOrderIdsPersisted(order) == ~order.draftOrderIds.isNull

\* C13: the request persists the checkout session, then the draftOrderIds map,
\* then the status draft_created; an order in status draft_created has its
\* checkoutSessionId and its draftOrderIds stored.
C13_PersistenceOrder ==
    /\ \A id \in OrderIds :
         orders[id].status = "draft_created" =>
            SessionPersisted(orders[id]) /\ DraftOrderIdsPersisted(orders[id])
    /\ ck.pc \in {"payment", "updateCheckout"} =>
         /\ ~SessionPersisted(orders[ck.orderId])
         /\ ~DraftOrderIdsPersisted(orders[ck.orderId])
         /\ orders[ck.orderId].status = "pending"
    /\ ck.pc = "updateDraftOrderIds" =>
         /\ orders[ck.orderId].checkoutSessionId = ck.sessionId
         /\ SessionPersisted(orders[ck.orderId])
         /\ ~DraftOrderIdsPersisted(orders[ck.orderId])
         /\ orders[ck.orderId].status = "pending"
    /\ ck.pc = "updateStatus" =>
         /\ SessionPersisted(orders[ck.orderId])
         /\ orders[ck.orderId].draftOrderIds = Ids(ck.draftOrderIds)
         /\ orders[ck.orderId].status = "pending"
    /\ ck.pc = "done" =>
         /\ SessionPersisted(orders[ck.orderId])
         /\ orders[ck.orderId].draftOrderIds = Ids(ck.draftOrderIds)
         /\ orders[ck.orderId].status = "draft_created"

\* a checkout over two providers has succeeded
C13_Witness ==
    /\ ck.pc = "done"
    /\ orders[ck.orderId].status = "draft_created"
    /\ orders[ck.orderId].checkoutSessionId = ck.sessionId
    /\ Len(orders[ck.orderId].draftOrderIds.entries) = 2

----------------------------------------------------------------------------
(* The payment session of a createCheckout *)

\* the non-manual providers among an order's items; a locally fulfilled item
\* carries its product's unset provider
ProvidersOfOrder(order) ==
    {order.items[k].fulfillmentProvider : k \in 1..Len(order.items)} \ {"", Manual}

\* the map a session's metadata carries, read back as provider -> id entries
MetadataEntries(session) ==
    [k \in 1..Len(session.metadata) |->
        [provider |-> session.metadata[k][1], id |-> session.metadata[k][2]]]

SessionsOf(orderId) == {s \in sessions : s.orderId = orderId}

\* C14: a createCheckout creates at most one payment session, and only once a
\* draft exists at the provider of every non-manual bucket; the map in the
\* session's metadata has exactly one entry per non-manual bucket, each a draft
\* that exists, and it is the map stored on the order and the map returned.
C14_OneSessionAfterAllDrafts ==
    /\ Cardinality(CallsOf("payment.createCheckout")) <= 1
    /\ \A id \in OrderIds : Cardinality(SessionsOf(id)) <= 1
    /\ \A s \in sessions :
         LET order == orders[s.orderId]
             entries == MetadataEntries(s)
         IN /\ s.orderId \in OrderIds
            /\ {entries[k].provider : k \in 1..Len(entries)} = ProvidersOfOrder(order)
            /\ Len(entries) = Cardinality(ProvidersOfOrder(order))
            /\ Range(entries) = RemoteEntries(s.orderId)
            /\ DraftOrderIdsPersisted(order) => order.draftOrderIds.entries = entries
            /\ (ck.pc = "done" /\ ck.orderId = s.orderId) =>
                  /\ ck.draftOrderIds = entries
                  /\ order.draftOrderIds = Ids(entries)
    /\ ck.pc = "done" => Cardinality(SessionsOf(ck.orderId)) = 1

\* a checkout of a printful, a gelato and no manual item has succeeded: one
\* session, two entries
C14_Witness ==
    /\ ck.pc = "done"
    /\ \E s \in sessions :
         /\ s.orderId = ck.orderId
         /\ Len(s.metadata) = 2
         /\ MetadataEntries(s) = orders[ck.orderId].draftOrderIds.entries

----------------------------------------------------------------------------
(* The amount of a checkout *)

\* the catalog prices a line of the product can be sold at: the base price or
\* the price of one of its variants
CatalogPrices(productId) ==
    {Catalog[productId].price}
        \cup {Catalog[productId].variants[v].price :
                v \in 1..Len(Catalog[productId].variants)}

\* the sum of unitPrice * quantity over an order's items
OrderSubtotal(order) ==
    SumSeq([k \in 1..Len(order.items) |->
               order.items[k].unitPrice * order.items[k].quantity])

\* C15: the order's totalAmount is the subtotal at catalog prices plus the
\* shippingCost the caller sent, whatever selectedRates holds; the payment
\* session is created for 100 times that amount.
C15_TotalAmount ==
    /\ \A id \in OrderIds :
         \A k \in 1..Len(orders[id].items) :
            orders[id].items[k].unitPrice \in CatalogPrices(orders[id].items[k].productId)
    /\ ck.orderId # 0 =>
         /\ orders[ck.orderId].totalAmount =
               OrderSubtotal(orders[ck.orderId]) + ck.shippingCost
         /\ ck.totalAmount = orders[ck.orderId].totalAmount
    /\ \A s \in sessions : s.amount = 100 * orders[s.orderId].totalAmount

\* two small tees (2 x 25) sent with shippingCost 5: the order is for 55, the
\* session for 5500
C15_Witness ==
    /\ ck.pc = "done"
    /\ ck.shippingCost = 5
    /\ orders[ck.orderId].totalAmount = 55
    /\ \E s \in sessions : s.orderId = ck.orderId /\ s.amount = 5500

----------------------------------------------------------------------------
(* The payment line items *)

\* the line item a cart line is to be paid with
LineOf(item) ==
    [name |-> item.productId,
     unitAmount |-> 100 * ResolveItem(item).price,
     quantity |-> item.quantity]

CountIn(s, x) == Cardinality({k \in 1..Len(s) : s[k] = x})

\* the same elements, each as many times, in any order
SameLines(a, b) ==
    /\ Len(a) = Len(b)
    /\ \A x \in Range(a) \cup Range(b) : CountIn(a, x) = CountIn(b, x)

\* C16: the line items of the payment session are one per cart line, with that
\* line's unit amount and quantity, followed by one Shipping line of quantity 1
\* for the shipping cost exactly when shippingCost > 0.
C16_LineItems ==
    \A s \in sessions :
       (ck.orderId = s.orderId) =>
          LET expected == [k \in 1..Len(ck.items) |-> LineOf(ck.items[k])]
              n == Len(ck.items)
          IN IF ck.shippingCost > 0
             THEN /\ Len(s.items) = n + 1
                  /\ SameLines(SubSeq(s.items, 1, n), expected)
                  /\ s.items[n + 1] = [name |-> "Shipping",
                                       unitAmount |-> 100 * ck.shippingCost,
                                       quantity |-> 1]
             ELSE /\ SameLines(s.items, expected)
                  /\ \A k \in 1..Len(s.items) : s.items[k].name # "Shipping"

\* a cart of a mug and two small tees with shippingCost 5: three line items
C16_Witness ==
    /\ ck.shippingCost = 5
    /\ Len(ck.items) = 2
    /\ \E s \in sessions :
         /\ s.orderId = ck.orderId
         /\ Len(s.items) = 3
         /\ s.items[1].name = "mug"
         /\ s.items[2] = [name |-> "tee", unitAmount |-> 2500, quantity |-> 2]
         /\ s.items[3].name = "Shipping"

----------------------------------------------------------------------------
(* The webhook handlers, as the specification describes them: they dispatch    *)
(* a provider's event to the Order Store operations. The session stays open    *)
(* until it is paid: nothing in createCheckout or the sweeper closes it.       *)

\* the payment provider reports the session paid: the order is marked paid.
\* Only the session of a checkout that returned can be paid: the customer has
\* no checkoutUrl otherwise.
StripeWebhook ==
    /\ ck.pc = "idle" /\ sw.pc = "idle"
    /\ \E s \in sessions :
         /\ s.status = "open"
         /\ orders[s.orderId].status # "pending"
         /\ sessions' = (sessions \ {s}) \cup {[s EXCEPT !.status = "complete"]}
         /\ orders' = UpdateStatus(s.orderId, "paid")
    /\ UNCHANGED <<wh, syncState, sy, products, configured, paymentConfigured, drafts, now, ck, sw, qt>>

\* the drafts of a paid order that are still drafts are confirmed, and the
\* order is given its fulfillment order id
FulfillmentConfirmed ==
    /\ ck.pc = "idle" /\ sw.pc = "idle"
    /\ \E id \in OrderIds :
         LET open == {d \in drafts : d.externalId = id /\ d.status = "draft"}
         IN /\ orders[id].status = "paid"
            /\ open # {}
            /\ drafts' = {IF d \in open THEN [d EXCEPT !.status = "confirmed"] ELSE d :
                            d \in drafts}
            /\ orders' = UpdateFulfillment(id, (CHOOSE d \in open : TRUE).id)
    /\ UNCHANGED <<wh, syncState, sy, products, configured, paymentConfigured, sessions, now, ck, sw, qt>>

\* a fulfillment provider reports a confirmed order shipped
TrackingWebhook ==
    /\ ck.pc = "idle" /\ sw.pc = "idle"
    /\ \E d \in drafts :
         /\ d.status = "confirmed"
         /\ drafts' = (drafts \ {d}) \cup {[d EXCEPT !.status = "shipped"]}
         /\ orders' = UpdateTracking(d.externalId,
                          Append(orders[d.externalId].trackingInfo, d.provider))
    /\ UNCHANGED <<wh, syncState, sy, products, configured, paymentConfigured, sessions, now, ck, sw, qt>>

\* one storefront checkout, the sweeper, the clock and the webhooks
LifecycleNext ==
    \/ CheckoutStartWith(StorefrontCarts, StorefrontAddresses, {AllRates}, StorefrontShippingCosts, MaxCheckouts)
    \/ CheckoutBucket
    \/ CheckoutPayment
    \/ CheckoutUpdateCheckout
    \/ CheckoutUpdateDraftOrderIds
    \/ CheckoutUpdateStatus
    \/ CheckoutReturn
    \/ SweepStart
    \/ SweepCancel
    \/ SweepDecide
    \/ SweepReturn
    \/ Tick
    \/ StripeWebhook
    \/ FulfillmentConfirmed
    \/ TrackingWebhook

LifecycleSpec == Init /\ [][LifecycleNext]_vars

\* the steps of the order status lifecycle
LifecycleSteps ==
    {<<"pending", "draft_created">>, <<"draft_created", "paid">>,
     <<"paid", "paid_pending_fulfillment">>, <<"paid", "processing">>,
     <<"paid_pending_fulfillment", "processing">>, <<"processing", "shipped">>,
     <<"shipped", "delivered">>,
     <<"draft_created", "cancelled">>, <<"draft_created", "partially_cancelled">>,
     <<"paid", "refunded">>, <<"paid_pending_fulfillment", "refunded">>,
     <<"processing", "refunded">>}

\* C17: every change of an order's status is a step of the lifecycle
\* pending -> draft_created -> paid -> (paid_pending_fulfillment) -> processing
\* -> shipped -> delivered, draft_created -> cancelled | partially_cancelled,
\* paid/processing -> refunded. The steps form no cycle, so no status is
\* re-entered, and cancelled and partially_cancelled have no successor.
C17_Lifecycle ==
    [][\A id \in OrderIds :
          orders'[id].status # orders[id].status =>
             <<orders[id].status, orders'[id].status>> \in LifecycleSteps]_vars

----------------------------------------------------------------------------
(* What a sweep selects *)

SelectedIds == {sw.abandoned[k].id : k \in 1..Len(sw.abandoned)}

\* the order was a draft_created order older than the sweep's threshold
Abandoned(order) ==
    order.status = "draft_created" /\ order.createdAt < now - sw.maxAgeHours

\* C18: a sweep selects exactly the draft_created orders created more than
\* maxAgeHours before it; it calls cancelOrder only for drafts of selected
\* orders and changes the status of no other order.
C18_SweepSelection ==
    [][sw.pc \in {"cancel", "decide", "done"} =>
          /\ \A k \in 1..Len(sw.abandoned) : Abandoned(sw.abandoned[k])
          /\ \A id \in OrderIds \ SelectedIds : ~Abandoned(orders[id])
          /\ \A k \in 1..Len(sw.cancelCalls) :
               /\ sw.cancelCalls[k].orderId \in SelectedIds
               /\ \E e \in Range(orders[sw.cancelCalls[k].orderId].draftOrderIds.entries) :
                     e.provider = sw.cancelCalls[k].provider /\ e.id = sw.cancelCalls[k].id
          /\ \A id \in OrderIds :
               orders'[id].status # orders[id].status =>
                  /\ id \in SelectedIds
                  /\ Abandoned(orders[id])
          /\ \A d \in drafts :
               d \notin drafts' => d.externalId \in SelectedIds]_vars

\* a sweep has dealt with the one old draft_created order and left the younger
\* draft_created order alone
C18_Witness ==
    /\ sw.pc = "done"
    /\ Len(sw.abandoned) = 1
    /\ Len(sw.cancelCalls) > 0
    /\ \E id \in OrderIds \ SelectedIds :
         /\ orders[id].status = "draft_created"
         /\ orders[id].createdAt >= now - sw.maxAgeHours

----------------------------------------------------------------------------
(* The drafts a partial cancellation leaves behind *)

\* C19: a draft whose cancellation failed while another provider's succeeded is
\* tried again by a later sweep: once a sweep covering the order's age has
\* finished, cancelOrder was called in it for every draft of a
\* partially_cancelled order that is still uncancelled at a configured provider.
C19_FailedCancelRetried ==
    sw.pc = "done" =>
       \A d \in drafts :
          ( /\ d.status = "draft"
            /\ HasProvider(d.provider)
            /\ orders[d.externalId].status = "partially_cancelled"
            /\ orders[d.externalId].createdAt < now - sw.maxAgeHours )
          => /\ d.externalId \in SelectedIds
             /\ SweepCalled(d.externalId, d)

----------------------------------------------------------------------------
(* Cart lines with an unknown variant *)

\* the line names a variant its product does not have
UnknownVariant(item) ==
    /\ ProductFound(item.productId)
    /\ item.variantId # ""
    /\ FindVariant(Catalog[item.productId].variants, item.variantId, 1) = 0

HasUnknownVariant(items) == \E k \in 1..Len(items) : UnknownVariant(items[k])

NotFoundErrors == {"ProductNotFound", "VariantNotFound"}

\* C20: a getQuote or createCheckout whose cart has a line with a variantId that
\* matches no variant of its product fails with a not-found error; no such line
\* is priced.
C20_UnknownVariantRejected ==
    /\ HasUnknownVariant(ck.items) =>
          /\ ck.orderId = 0
          /\ ck.pc \in {"idle", "failed"}
          /\ (ck.pc = "failed" /\ ck.calls = <<>>) => ck.error.kind \in NotFoundErrors
    /\ HasUnknownVariant(qt.items) =>
          /\ ~qt.result.present
          /\ qt.pc \in {"idle", "failed"}
          /\ (qt.pc = "failed" /\ qt.calls = <<>>) => qt.error.kind \in NotFoundErrors

----------------------------------------------------------------------------
(* The order of the quoteOrder calls *)

\* the quoteOrder call returned a non-empty list of rates
Answered(call) == call.answer.ok /\ Len(call.answer.rates) > 0

AllBucketsServed ==
    \A k \in 1..Len(qt.buckets) :
       qt.buckets[k].provider = Manual \/ HasProvider(qt.buckets[k].provider)

----------------------------------------------------------------------------
(* The ProductStore: catalog changes *)

\* the products a sync or an admin writes: a tee at another price with a
\* repriced variant, a tee moved to another provider without variants, a
\* sticker given a provider, and a new product
UpsertInputs ==
    {[id |-> "tee", price |-> 30, fulfillmentProvider |-> "printful",
      variants |-> <<[id |-> "tee-s", price |-> 35]>>],
     [id |-> "tee", price |-> 22, fulfillmentProvider |-> "gelato", variants |-> <<>>],
     [id |-> "sticker", price |-> 4, fulfillmentProvider |-> "printful", variants |-> <<>>],
     [id |-> "cap", price |-> 15, fulfillmentProvider |-> "gelato", variants |-> <<>>]}

\* ProductStore.upsert: the product row is inserted or overwritten and its
\* variants are replaced
Upsert(product) ==
    [id \in DOMAIN products \cup {product.id} |->
        IF id = product.id THEN product ELSE products[id]]

\* an upsert that changes the catalog
ProductUpsert ==
    /\ \E product \in UpsertInputs :
         /\ (product.id \in DOMAIN products => products[product.id] # product)
         /\ products' = Upsert(product)
    /\ UNCHANGED <<wh, syncState, sy, configured, paymentConfigured, orders, drafts, sessions, now, ck, sw, qt>>

\* ProductStore.delete: the product row goes, and its variants with it
ProductDelete ==
    /\ \E id \in DOMAIN products :
         products' = [p \in DOMAIN products \ {id} |-> products[p]]
    /\ UNCHANGED <<wh, syncState, sy, configured, paymentConfigured, orders, drafts, sessions, now, ck, sw, qt>>

\* storefront checkouts while the catalog changes
CatalogNext ==
    \/ CheckoutStartWith(StorefrontCarts, StorefrontAddresses, {AllRates}, StorefrontShippingCosts, MaxCheckouts)
    \/ CheckoutBucket
    \/ CheckoutPayment
    \/ CheckoutUpdateCheckout
    \/ CheckoutUpdateDraftOrderIds
    \/ CheckoutUpdateStatus
    \/ CheckoutReturn
    \/ ProductUpsert
    \/ ProductDelete

CatalogSpec == Init /\ [][CatalogNext]_vars

\* the prices the catalog now has for a product
CurrentPrices(productId) ==
    IF productId \in DOMAIN products
    THEN {products[productId].price}
            \cup {products[productId].variants[v].price :
                    v \in 1..Len(products[productId].variants)}
    ELSE {}

\* the order of the request in flight holds the resolved cart
HoldsResolvedCart ==
    /\ FindOrder(ck.orderId).items = OrderItems(ck.buckets)
    /\ FindOrder(ck.orderId).totalAmount =
          SumSeq([k \in 1..Len(ck.items) |->
                     ResolveItem(ck.items[k]).price * ck.items[k].quantity])
             + ck.shippingCost

\* C22: an order's items are a copy taken at creation: whatever a later step
\* does, a catalog upsert or delete included, the items find returns for an
\* existing order (product, quantity, unit price, fulfillment provider) and its
\* totalAmount stay what they were; at creation they are the resolved cart.
C22_ItemsFrozen ==
    [][/\ \A id \in OrderIds :
            /\ FindOrder(id)'.items = FindOrder(id).items
            /\ FindOrder(id)'.totalAmount = FindOrder(id).totalAmount
       /\ (ck.orderId = 0 /\ ck'.orderId # 0) => HoldsResolvedCart']_vars

\* an order holds a line whose product has since been deleted or repriced
C22_Witness ==
    \E id \in OrderIds :
       \E k \in 1..Len(orders[id].items) :
          /\ FindOrder(id).items[k].productId = "tee"
          /\ FindOrder(id).items[k].unitPrice = 25
          /\ FindOrder(id).items[k].unitPrice \notin CurrentPrices("tee")

----------------------------------------------------------------------------
(* Orders are never removed *)

CancelledStatuses == {"cancelled", "partially_cancelled"}

----------------------------------------------------------------------------
(* getQuote beside stored orders *)

\* quotes asked for while the store holds the orders, drafts and sessions of
\* earlier checkouts; a quote and a checkout are requests of one customer, one
\* after the other
BrowseNext ==
    \/ (qt.pc = "idle" /\ CheckoutStartWith(StorefrontCarts, StorefrontAddresses, {AllRates},
                                            StorefrontShippingCosts, MaxCheckouts))
    \/ CheckoutBucket
    \/ CheckoutPayment
    \/ CheckoutUpdateCheckout
    \/ CheckoutUpdateDraftOrderIds
    \/ CheckoutUpdateStatus
    \/ CheckoutReturn
    \/ (ck.pc = "idle" /\ QuoteStart)
    \/ QuoteBucket
    \/ QuoteReturn

BrowseSpec == Init /\ [][BrowseNext]_vars

\* C24: getQuote is ephemeral: every step of a getQuote request, whatever its
\* input and whether it ends with a quote or an error, leaves the orders, the
\* providers' drafts, the payment sessions and the products as they were, and
\* every remote call the request has issued is a quoteOrder call.
C24_QuoteEphemeral ==
    [][qt' # qt =>
         /\ orders' = orders
         /\ drafts' = drafts
         /\ sessions' = sessions
         /\ products' = products
         /\ \A k \in 1..Len(qt'.calls) : qt'.calls[k].op = "quoteOrder"]_vars

\* a quote over two providers has been computed while an order with its draft
\* and its payment session is stored
C24_Witness ==
    /\ qt.pc = "done"
    /\ qt.result.present
    /\ Len(qt.calls) = 2
    /\ Len(orders) = 1
    /\ orders[1].status = "draft_created"
    /\ drafts # {}
    /\ sessions # {}

----------------------------------------------------------------------------
(* The shipping address *)

\* C25: the shipping address given to createCheckout is never stored: at every
\* point of a request, and after it has succeeded or failed, the shippingAddress
\* of every order is unset, while every draft created for the request's order
\* carries the recipient built from the request's address.
C25_AddressNotStored ==
    /\ \A id \in OrderIds : FindOrder(id).shippingAddress.isNull
    /\ ck.orderId # 0 =>
         \A d \in drafts : d.externalId = ck.orderId
                               => d.recipient = BuildRecipient(ck.address)

\* a checkout with an address has succeeded: its draft carries the recipient,
\* its order has no address
C25_Witness ==
    /\ ck.pc = "done"
    /\ ck.address.city = "Lima"
    /\ \E d \in drafts : d.externalId = ck.orderId /\ d.recipient.city = "Lima"
    /\ FindOrder(ck.orderId).shippingAddress.isNull
    /\ FindOrder(ck.orderId).checkoutSessionId # 0

----------------------------------------------------------------------------
(* A payment during a sweep *)

\* the payment provider reports a session paid at any moment between two
\* steps of a sweep or between requests: the webhook handler and the admin
\* cleanup route are separate requests of one server
StripeWebhookAnyTime ==
    /\ ck.pc = "idle"
    /\ \E s \in sessions :
         /\ s.status = "open"
         /\ orders[s.orderId].status # "pending"
         /\ sessions' = (sessions \ {s}) \cup {[s EXCEPT !.status = "complete"]}
         /\ orders' = UpdateStatus(s.orderId, "paid")
    /\ UNCHANGED <<wh, syncState, sy, products, configured, paymentConfigured, drafts, now, ck, sw, qt>>

\* one storefront checkout, the clock, the sweeper, and payments arriving
\* while it runs
RaceNext ==
    \/ CheckoutStartWith(StorefrontCarts, StorefrontAddresses, {AllRates},
                         StorefrontShippingCosts, MaxCheckouts)
    \/ CheckoutBucket
    \/ CheckoutPayment
    \/ CheckoutUpdateCheckout
    \/ CheckoutUpdateDraftOrderIds
    \/ CheckoutUpdateStatus
    \/ CheckoutReturn
    \/ SweepStart
    \/ SweepCancel
    \/ SweepDecide
    \/ SweepReturn
    \/ Tick
    \/ StripeWebhookAnyTime

RaceSpec == Init /\ [][RaceNext]_vars

\* C26: the sweeper never overwrites a payment: no step takes an order that is
\* paid to cancelled or partially_cancelled, and no step cancels a remote
\* draft of an order that is paid.
C26_SweeperKeepsPayment ==
    [][\A id \in OrderIds :
         orders[id].status = "paid" =>
           /\ orders'[id].status \notin CancelledStatuses
           /\ \A d \in drafts :
                 (d.externalId = id /\ d.status = "draft") => d \in drafts']_vars

----------------------------------------------------------------------------
(* The sweeper and a failing Order Store *)

\* C27: a failing updateStatus does not stop the sweep: a sweep that has
\* selected orders ends with a result, in which every selected order has been
\* processed and every order whose remote drafts were cancelled is counted.
C27_SweepSurvivesStoreFailure ==
    (sw.pc \in {"done", "failed"} /\ Len(sw.abandoned) > 0) =>
        /\ sw.pc = "done"
        /\ sw.totalProcessed = Len(sw.abandoned)
        /\ Len(sw.outcomes) = Len(sw.abandoned)
        /\ \A k \in 1..Len(sw.cancelCalls) :
              \E o \in 1..Len(sw.outcomes) :
                 sw.outcomes[o].orderId = sw.cancelCalls[k].orderId

----------------------------------------------------------------------------
(* The payment session's line items and its amount *)

\* the sum over the line items of unitAmount * quantity
RECURSIVE LineItemsSum(_)
LineItemsSum(lines) ==
    IF Len(lines) = 0 THEN 0
    ELSE lines[1].unitAmount * lines[1].quantity + LineItemsSum(Tail(lines))

\* C28: for every payment session createCheckout creates, the line items add
\* up to the session amount, which is the order's totalAmount in minor units,
\* whatever the shippingCost of the request: positive, zero or negative.
C28_LinesAddUpToAmount ==
    \A s \in sessions :
      /\ s.amount = ToMinor(FindOrder(s.orderId).totalAmount)
      /\ LineItemsSum(s.items) = s.amount

----------------------------------------------------------------------------
(* ProductService.sync *)

\* what provider.client.getProducts answers with, as transformProviderProduct
\* turns it into local products
ProviderProducts(providerName) ==
    IF providerName = "printful"
    THEN <<[id |-> "tee", price |-> 30, fulfillmentProvider |-> "printful",
            variants |-> <<[id |-> "tee-s", price |-> 35]>>],
           [id |-> "sticker", price |-> 4, fulfillmentProvider |-> "printful",
            variants |-> <<>>]>>
    ELSE <<[id |-> "cap", price |-> 15, fulfillmentProvider |-> providerName,
            variants |-> <<>>]>>

\* ProductStore.getSyncStatus: 'idle' when there is no row
GetSyncStatus == IF syncState = "none" THEN "idle" ELSE syncState

\* a failed yield* inside Effect.gen ends the generator: it is not resumed and
\* nothing is thrown into it, so the catch block around the yield* does not run
\* and the status written before it stays
SyncFail(kind, provider) ==
    [sy EXCEPT !.pc = "failed", !.error = Err(kind, provider)]

\* lines 298-305: the early return without providers, or
\* setSyncStatus('products', 'running', ...)
SyncStart ==
    /\ sy.pc = "idle"
    /\ IF configured = {}
       THEN /\ sy' = [SyIdle EXCEPT !.pc = "done"]
            /\ UNCHANGED syncState
       ELSE \E ok \in BOOLEAN :
              IF ok
              THEN /\ syncState' = "running"
                   /\ sy' = [SyIdle EXCEPT !.pc = "syncing",
                                           !.unfetched = configured,
                                           !.remaining = [p \in configured |-> <<>>]]
              ELSE /\ sy' = [SyIdle EXCEPT !.pc = "failed",
                                           !.error = Err("SetSyncStatusFailed", "")]
                   /\ UNCHANGED syncState
    /\ UNCHANGED <<wh, products, configured, paymentConfigured, orders, drafts, sessions,
                   now, ck, sw, qt>>

\* lines 218-231: provider.client.getProducts of one of the providers, which
\* Effect.all runs side by side
SyncFetch ==
    /\ sy.pc = "syncing"
    /\ \E providerName \in sy.unfetched, ok \in BOOLEAN :
         IF ok
         THEN sy' = [sy EXCEPT !.unfetched = @ \ {providerName},
                               !.remaining[providerName] = ProviderProducts(providerName)]
         ELSE sy' = SyncFail("FetchFailed", providerName)
    /\ UNCHANGED <<wh, syncState, products, configured, paymentConfigured, orders, drafts,
                   sessions, now, ck, sw, qt>>

\* lines 237-246: one product of one provider: transformProviderProduct throws
\* and the product is skipped, or store.upsert succeeds, or store.upsert fails
SyncUpsert ==
    /\ sy.pc = "syncing"
    /\ \E providerName \in DOMAIN sy.remaining :
         /\ Len(sy.remaining[providerName]) > 0
         /\ LET product == Head(sy.remaining[providerName])
                next == [sy EXCEPT !.remaining[providerName] = Tail(@)]
            IN \E outcome \in {"synced", "transformThrew", "upsertFailed"} :
                 /\ outcome = "synced" =>
                       /\ products' = Upsert(product)
                       /\ sy' = [next EXCEPT !.count = @ + 1]
                 /\ outcome = "transformThrew" =>
                       /\ sy' = next
                       /\ UNCHANGED products
                 /\ outcome = "upsertFailed" =>
                       /\ sy' = SyncFail("UpsertFailed", providerName)
                       /\ UNCHANGED products
    /\ UNCHANGED <<wh, syncState, configured, paymentConfigured, orders, drafts, sessions,
                   now, ck, sw, qt>>

\* lines 313-315: every provider is through: setSyncStatus('products', 'idle', ...)
SyncFinish ==
    /\ sy.pc = "syncing"
    /\ sy.unfetched = {}
    /\ \A providerName \in DOMAIN sy.remaining : Len(sy.remaining[providerName]) = 0
    /\ \E ok \in BOOLEAN :
         IF ok
         THEN /\ syncState' = "idle"
              /\ sy' = [sy EXCEPT !.pc = "done"]
         ELSE /\ sy' = SyncFail("SetSyncStatusFailed", "")
              /\ UNCHANGED syncState
    /\ UNCHANGED <<wh, products, configured, paymentConfigured, orders, drafts, sessions,
                   now, ck, sw, qt>>

\* the result or the error has gone to the caller
SyncReturn ==
    /\ sy.pc \in {"done", "failed"}
    /\ sy' = SyIdle
    /\ UNCHANGED <<wh, syncState, products, configured, paymentConfigured, orders, drafts,
                   sessions, now, ck, sw, qt>>

\* syncs, one after the other
SyncNext ==
    \/ SyncStart
    \/ SyncFetch
    \/ SyncUpsert
    \/ SyncFinish
    \/ SyncReturn

SyncSpec == Init /\ [][SyncNext]_vars

\* C29: the sync status never stays running once sync has ended: when a sync
\* over at least one provider has ended with success the stored status is
\* idle, and when it has ended because a provider fetch or a product upsert
\* failed the stored status is error.
C29_SyncStatusSettles ==
    /\ (sy.pc = "done" /\ configured # {}) => GetSyncStatus = "idle"
    /\ (sy.pc = "failed" /\ sy.error.kind \in {"FetchFailed", "UpsertFailed"})
          => GetSyncStatus = "error"

----------------------------------------------------------------------------
(* Webhook signatures *)

\* a service built with a webhook secret checks the signature of a body
VerifyWebhook ==
    /\ \E webhookSecret \in SecretInputs, body \in BodyInputs, signature \in SignatureInputs :
         wh' = [webhookSecret |-> webhookSecret, body |-> body, signature |-> signature,
                result |-> VerifyWebhookSignature(webhookSecret, body, signature)]
    /\ UNCHANGED <<syncState, sy, products, configured, paymentConfigured, orders, drafts,
                   sessions, now, ck, sw, qt>>

WebhookNext == VerifyWebhook

WebhookSpec == Init /\ [][WebhookNext]_vars

\* C30: verifyWebhookSignature returns true only when a webhook secret is
\* configured and the signature is the hex HMAC-SHA256 of the body under that
\* secret; any other signature, the secret itself included, is rejected.
C30_OnlyHmacAccepted ==
    wh.result =>
        /\ wh.webhookSecret # Empty
        /\ wh.signature = HmacHex(wh.webhookSecret, wh.body)

====
